---------------------------- MODULE Spec2Model ----------------------------
(***************************************************************************)
(* Model of src/app.py: the EnergyConsumptionApp Streamlit script.         *)
(*                                                                         *)
(* Streamlit executes the script from top to bottom once per user          *)
(* interaction: every script run constructs EnergyConsumptionApp (which    *)
(* calls load_resources) and then calls run().  A script run is modelled   *)
(* as the steps  load_resources -> build -> align -> predict -> expander;  *)
(* st.stop() and an exception that escapes run() end the script run.       *)
(*                                                                         *)
(* Conventions.  Slider readings are real numbers with step 0.01 and are   *)
(* held in hundredths (240.0 V is 24000).  A predictor's output is held in *)
(* eighths of a kW, so that every value is an exact binary fraction and    *)
(* the "{:.2f}" rendering (hundredths) is computed exactly.  None is the   *)
(* empty sequence and a present value x is <<x>>.  The artifact files are  *)
(* the environment: the script never writes them, and they are taken not   *)
(* to change while the process runs.                                       *)
(***************************************************************************)
EXTENDS Integers, Sequences, FiniteSets

VARIABLES
    files,          \* the three artifact files, as joblib.load finds them
    app,            \* attributes of the EnergyConsumptionApp of this script run
    pc,             \* position of the script run
    halt,           \* how the script run ended: "none", "completed", "stopped", "exception"
    inputs,         \* widget values read by run(), None before they are read
    built,          \* the DataFrame built at lines 176-191, None before
    input_data,     \* the variable input_data of run(): built, then rebound by alignment
    calls,          \* predictor invocations of this script run, in order
    linear_pred,    \* local linear_pred of run(), None while unassigned
    ridge_pred,     \* local ridge_pred of run(), None while unassigned
    display,        \* elements rendered by this script run, in order
    uncaught,       \* the exception that escaped run(), None if none did
    runs,           \* script runs started so far
    log,            \* process-wide counts of the operations executed
    prev            \* inputs and outcome of the previous script run, None at first

vars == <<files, app, pc, halt, inputs, built, input_data, calls, linear_pred,
          ridge_pred, display, uncaught, runs, log, prev>>

None == <<>>
Some(x) == <<x>>

\* Number of script runs (user interactions) explored.
MaxRuns == 2
\* Longest enumerated feature-name list of the alignment specification.
MaxOrderLen == 2

---------------------------------------------------------------------------
(* Calendar: pd.Timestamp.combine and the fields read from it.             *)

IsLeap(y) == (y % 4 = 0) /\ ((y % 100 # 0) \/ (y % 400 = 0))

DaysInMonth(y, m) ==
    IF m = 2 THEN (IF IsLeap(y) THEN 29 ELSE 28)
    ELSE IF m \in {4, 6, 9, 11} THEN 30 ELSE 31

RECURSIVE DaysBeforeMonth(_, _)
DaysBeforeMonth(y, m) ==
    IF m = 1 THEN 0 ELSE DaysBeforeMonth(y, m - 1) + DaysInMonth(y, m - 1)

DaysBeforeYear(y) ==
    (y - 1) * 365 + ((y - 1) \div 4) - ((y - 1) \div 100) + ((y - 1) \div 400)

\* Proleptic Gregorian ordinal, 0001-01-01 is day 1.
Ymd2Ord(y, m, d) == DaysBeforeYear(y) + DaysBeforeMonth(y, m) + d

\* The inverse of Ymd2Ord, by the 400/100/4/1-year cycle decomposition.
Ord2Ymd(ord) ==
    LET n0   == ord - 1
        n400 == n0 \div 146097
        r400 == n0 % 146097
        n100 == r400 \div 36524
        r100 == r400 % 36524
        n4   == r100 \div 1461
        r4   == r100 % 1461
        n1   == r4 \div 365
        r1   == r4 % 365
        yr   == n400 * 400 + n100 * 100 + n4 * 4 + n1 + 1
    IN  IF n1 = 4 \/ n100 = 4
        THEN [year |-> yr - 1, month |-> 12, day |-> 31]
        ELSE LET mo == CHOOSE k \in 1..12 :
                          /\ DaysBeforeMonth(yr, k) <= r1
                          /\ r1 < DaysBeforeMonth(yr, k) + DaysInMonth(yr, k)
             IN  [year |-> yr, month |-> mo, day |-> r1 - DaysBeforeMonth(yr, mo) + 1]

\* pd.Timestamp.combine(date, time): one instant, held as minutes since ordinal 0.
Combine(date, time) ==
    Ymd2Ord(date.year, date.month, date.day) * 1440 + time.hour * 60 + time.minute

TsYear(ts)   == Ord2Ymd(ts \div 1440).year
TsMonth(ts)  == Ord2Ymd(ts \div 1440).month
TsDay(ts)    == Ord2Ymd(ts \div 1440).day
TsHour(ts)   == (ts % 1440) \div 60
TsMinute(ts) == ts % 60

\* Timestamp.weekday(): pandas' dayofweek(year, month, day), Sakamoto's method,
\* converted to the Python convention Monday = 0.
SakamotoTable == <<0, 3, 2, 5, 0, 3, 5, 1, 4, 6, 2, 4>>

SakamotoDay(ts) ==
    LET m == TsMonth(ts)
        d == TsDay(ts)
        y == IF m < 3 THEN TsYear(ts) - 1 ELSE TsYear(ts)
    IN  (y + (y \div 4) - (y \div 100) + (y \div 400) + SakamotoTable[m] + d) % 7

\* A plausible slip: the Sunday = 0 numbering of Sakamoto's method, unconverted.
TsWeekday_SundayZero(ts) == SakamotoDay(ts)

TsWeekday(ts) == (SakamotoDay(ts) + 6) % 7

---------------------------------------------------------------------------
(* The feature record (a one-row DataFrame) and its alignment.             *)

\* Column order of the dict literal at lines 176-191.
BuildColumns ==
    << "Global_reactive_power", "Voltage", "Global_intensity", "Sub_metering_1",
       "Sub_metering_2", "Sub_metering_3", "Year", "Month", "Day", "Hour",
       "Minute", "Is_holiday", "Light", "Weekday" >>

RangeOf(s) == {s[i] : i \in 1..Len(s)}

\* A plausible slip: the light flag derived from the hour instead of held constant.
BuildRow_LightByHour(inp) ==
    LET date_time == Combine(inp.date, inp.time)
    IN  << 0, inp.voltage, inp.global_intensity, inp.sub_metering_1,
           inp.sub_metering_2, inp.sub_metering_3,
           TsYear(date_time), TsMonth(date_time), TsDay(date_time),
           TsHour(date_time), TsMinute(date_time),
           0, (IF TsHour(date_time) \in 7..18 THEN 0 ELSE 1), TsWeekday(date_time) >>

\* The values of the dict literal, in BuildColumns order (lines 164-191).
BuildRow(inp) ==
    LET date_time == Combine(inp.date, inp.time)
        is_holiday == 0
        light == 1
        weekday == TsWeekday(date_time)
    IN  << 0, inp.voltage, inp.global_intensity, inp.sub_metering_1,
           inp.sub_metering_2, inp.sub_metering_3,
           TsYear(date_time), TsMonth(date_time), TsDay(date_time),
           TsHour(date_time), TsMinute(date_time),
           is_holiday, light, weekday >>

\* pd.DataFrame({...}) with one row.
Build(inp) == [columns |-> BuildColumns, row |-> BuildRow(inp)]

\* df[name] for a column that exists: the value in the row.
ColumnIndex(df, name) == CHOOSE i \in 1..Len(df.columns) : df.columns[i] = name
Lookup(df, name) == df.row[ColumnIndex(df, name)]

MissingNames(df, names) == {i \in 1..Len(names) : names[i] \notin RangeOf(df.columns)}

KeyError(df, names) ==
    [type |-> "KeyError",
     arg  |-> names[CHOOSE i \in MissingNames(df, names) :
                       \A j \in MissingNames(df, names) : i <= j]]

\* A plausible slip: the columns that exist are selected and the others dropped
\* (the behaviour of a filter or an intersection instead of df[list]).
Align_DropMissing(df, names) ==
    LET keep == SelectSeq(names, LAMBDA n : n \in RangeOf(df.columns))
    IN  [exc |-> None,
         df  |-> Some([columns |-> keep,
                       row |-> [i \in 1..Len(keep) |-> Lookup(df, keep[i])]])]

\* A plausible slip: the requested columns are kept in the frame's own order.
Align_FrameOrder(df, names) ==
    IF MissingNames(df, names) # {}
    THEN [exc |-> Some(KeyError(df, names)), df |-> None]
    ELSE LET keep == SelectSeq(df.columns, LAMBDA n : n \in RangeOf(names))
         IN  [exc |-> None,
              df  |-> Some([columns |-> keep,
                            row |-> [i \in 1..Len(keep) |-> Lookup(df, keep[i])]])]

\* input_data[self.feature_names] (line 195): KeyError if a name is no column,
\* else the frame of the named columns in the order asked, repeats included.
Align(df, names) ==
    IF MissingNames(df, names) # {}
    THEN [exc |-> Some(KeyError(df, names)), df |-> None]
    ELSE [exc |-> None,
          df  |-> Some([columns |-> names,
                        row |-> [i \in 1..Len(names) |-> Lookup(df, names[i])]])]

---------------------------------------------------------------------------
(* The predictors: opaque objects deserialized from the model artifacts.   *)

RECURSIVE Dot(_, _)
Dot(w, x) == IF Len(w) = 0 THEN 0 ELSE Head(w) * Head(x) + Dot(Tail(w), Tail(x))

ConstPredictor(c) == [kind |-> "const", intercept |-> c, coef |-> <<>>, raises |-> ""]
LinearPredictor(b, w) == [kind |-> "linear", intercept |-> b, coef |-> w, raises |-> ""]
RaisingPredictor(t) == [kind |-> "raises", intercept |-> 0, coef |-> <<>>, raises |-> t]

\* model.predict(X) for a one-row frame X: an array of one value, or an exception.
\* A fitted regression rejects a frame of the wrong width with ValueError.
Predict(model, X) ==
    IF model.kind = "const"
    THEN [exc |-> None, val |-> <<model.intercept>>]
    ELSE IF model.kind = "raises"
    THEN [exc |-> Some([type |-> model.raises, arg |-> "predict"]), val |-> <<>>]
    ELSE IF Len(X.row) # Len(model.coef)
    THEN [exc |-> Some([type |-> "ValueError", arg |-> "n_features"]), val |-> <<>>]
    ELSE [exc |-> None, val |-> <<model.intercept + Dot(model.coef, X.row)>>]

\* "{:.2f}".format(v) for v = n/8: hundredths, rounded half to even on the exact value.
Fmt2Abs(n) ==
    LET twice == 25 * n
        floor == twice \div 2
    IN  IF twice % 2 = 0 THEN floor
        ELSE IF floor % 2 = 0 THEN floor ELSE floor + 1

Fmt2(n) == IF n < 0 THEN 0 - Fmt2Abs(0 - n) ELSE Fmt2Abs(n)

---------------------------------------------------------------------------
(* Rendered elements.                                                      *)

Element(kind, text, args) == [kind |-> kind, text |-> text, args |-> args]

Toast        == Element("toast", "Models loaded successfully!", <<>>)
ErrorBox(text, e) == Element("error", text, <<e>>)
SidebarTitle == Element("markdown", "Customize Prediction Parameters", <<>>)
PageTitle    == Element("markdown", "Energy Consumption Forecasting", <<>>)
Expander     == Element("expander", "Methodology & Disclaimer", <<>>)
\* The result card: the two "{:.2f} kW" slots, Linear Regression first.
Card(l, r)   == Element("card", "Prediction Results", <<Fmt2(l), Fmt2(r)>>)

Kinds(d) == [i \in 1..Len(d) |-> d[i].kind]
Count(d, kind) == Cardinality({i \in 1..Len(d) : d[i].kind = kind})

---------------------------------------------------------------------------
(* load_resources (lines 129-141).                                         *)

LinearFile == "linear_model.pkl"
RidgeFile  == "ridge_model.pkl"
NamesFile  == "feature_names.pkl"
ArtifactFiles == {LinearFile, RidgeFile, NamesFile}

\* joblib.load(name): the object, or the exception the file's condition raises.
\* A missing file raises FileNotFoundError; a file that does not deserialize
\* raises some other Exception.
JoblibLoad(f, name) ==
    IF f[name].st = "ok" THEN [exc |-> None, obj |-> f[name].obj]
    ELSE IF f[name].st = "missing"
    THEN [exc |-> Some([type |-> "FileNotFoundError", arg |-> name]), obj |-> None]
    ELSE [exc |-> Some([type |-> "UnpicklingError", arg |-> name]), obj |-> None]

NoApp == [linear_model |-> None, ridge_model |-> None, feature_names |-> None]

\* A plausible slip: the error is shown but the script is not stopped.
LoadFailed_NoStop(attrs, e) ==
    [app     |-> attrs,
     display |-> << IF e.type = "FileNotFoundError"
                    THEN ErrorBox("File not found", e)
                    ELSE ErrorBox("Error loading resources", e) >>,
     stopped |-> FALSE]

\* The two except clauses (lines 136-141): st.error, then st.stop().
LoadFailed(attrs, e) ==
    [app     |-> attrs,
     display |-> << IF e.type = "FileNotFoundError"
                    THEN ErrorBox("File not found", e)
                    ELSE ErrorBox("Error loading resources", e) >>,
     stopped |-> TRUE]

\* A plausible slip: each load guarded on its own, so that a later artifact's
\* failure is reported after an earlier one's.
load_resources_KeepGoing(f) ==
    LET l == JoblibLoad(f, LinearFile)
        r == JoblibLoad(f, RidgeFile)
        n == JoblibLoad(f, NamesFile)
        msg(x) == IF x.exc = None THEN <<>>
                  ELSE LoadFailed(NoApp, x.exc[1]).display
        errs == msg(l) \o msg(r) \o msg(n)
    IN  [app     |-> [linear_model |-> l.obj, ridge_model |-> r.obj,
                      feature_names |-> n.obj],
         display |-> IF errs = <<>> THEN <<Toast>> ELSE errs,
         stopped |-> errs # <<>>]

\* The try block: three loads in order, the first failure leaves the block.
load_resources(f) ==
    LET l == JoblibLoad(f, LinearFile)
        r == JoblibLoad(f, RidgeFile)
        n == JoblibLoad(f, NamesFile)
    IN  IF l.exc # None THEN LoadFailed(NoApp, l.exc[1])
        ELSE IF r.exc # None
        THEN LoadFailed([NoApp EXCEPT !.linear_model = l.obj], r.exc[1])
        ELSE IF n.exc # None
        THEN LoadFailed([NoApp EXCEPT !.linear_model = l.obj,
                                      !.ridge_model = r.obj], n.exc[1])
        ELSE [app     |-> [linear_model |-> l.obj, ridge_model |-> r.obj,
                           feature_names |-> n.obj],
              display |-> <<Toast>>,
              stopped |-> FALSE]

---------------------------------------------------------------------------
(* The prediction block of run() (lines 200-222).                          *)

Call(which, X) == [model |-> which, X |-> X]

NoOutcome ==
    [calls |-> <<>>, linear_pred |-> None, ridge_pred |-> None,
     display |-> <<>>, uncaught |-> None]

\* What an exception raised inside the try block leads to: ValueError is
\* handled by st.error, any other exception leaves run().
Raised(out, e) ==
    IF e.type = "ValueError"
    THEN [out EXCEPT !.display = <<ErrorBox("Prediction error", e)>>]
    ELSE [out EXCEPT !.uncaught = Some(e)]

\* A plausible slip: the ridge slot filled from the linear model.
predictions_RidgeFromLinear(linear_model, ridge_model, X) ==
    LET l == Predict(linear_model, X)
        c1 == [NoOutcome EXCEPT !.calls = <<Call("linear", X)>>]
    IN  IF l.exc # None THEN Raised(c1, l.exc[1])
        ELSE LET r == Predict(linear_model, X)
                 c2 == [c1 EXCEPT !.calls = @ \o <<Call("linear", X)>>,
                                  !.linear_pred = Some(l.val[1])]
             IN  IF r.exc # None THEN Raised(c2, r.exc[1])
                 ELSE [c2 EXCEPT !.ridge_pred = Some(r.val[1]),
                                 !.display = <<Card(l.val[1], r.val[1])>>]

predictions(linear_model, ridge_model, X) ==
    LET l == Predict(linear_model, X)
        c1 == [NoOutcome EXCEPT !.calls = <<Call("linear", X)>>]
    IN  IF l.exc # None THEN Raised(c1, l.exc[1])
        ELSE LET r == Predict(ridge_model, X)
                 c2 == [c1 EXCEPT !.calls = @ \o <<Call("ridge", X)>>,
                                  !.linear_pred = Some(l.val[1])]
             IN  IF r.exc # None THEN Raised(c2, r.exc[1])
                 ELSE [c2 EXCEPT !.ridge_pred = Some(r.val[1]),
                                 !.display = <<Card(l.val[1], r.val[1])>>]

---------------------------------------------------------------------------
(* The environment: artifact files and widget values.                      *)

D(y, m, d) == [year |-> y, month |-> m, day |-> d]
T(h, mi)   == [hour |-> h, minute |-> mi]

\* Slider readings in hundredths: the defaults of lines 154-158, and the two
\* ends of every slider's range.
DefaultReadings ==
    [voltage |-> 24000, global_intensity |-> 463, sub_metering_1 |-> 112,
     sub_metering_2 |-> 130, sub_metering_3 |-> 646]
LowReadings ==
    [voltage |-> 22000, global_intensity |-> 0, sub_metering_1 |-> 0,
     sub_metering_2 |-> 0, sub_metering_3 |-> 0]
HighReadings ==
    [voltage |-> 25500, global_intensity |-> 2000, sub_metering_1 |-> 5000,
     sub_metering_2 |-> 5000, sub_metering_3 |-> 5000]

DefaultDate == D(2024, 11, 28)
DefaultTime == T(12, 0)

WithDateTime(r, date, time) ==
    [voltage |-> r.voltage, global_intensity |-> r.global_intensity,
     sub_metering_1 |-> r.sub_metering_1, sub_metering_2 |-> r.sub_metering_2,
     sub_metering_3 |-> r.sub_metering_3, date |-> date, time |-> time]

\* Widget values of the process specification.
FormInputs ==
    {WithDateTime(r, d, DefaultTime) :
        r \in {DefaultReadings, HighReadings}, d \in {DefaultDate, D(2024, 11, 29)}}

\* Widget values of the calendar specification: month ends, leap and common
\* Februaries, a year end, both ends of the date widget's default range.
CalendarDates ==
    { DefaultDate, D(2024, 2, 28), D(2024, 2, 29), D(2023, 2, 28), D(2024, 3, 1),
      D(2024, 12, 31), D(2025, 1, 1), D(2020, 1, 1), D(2014, 11, 28),
      D(2034, 11, 28), D(2024, 4, 30), D(2026, 7, 5) }
CalendarTimes == {T(0, 0), DefaultTime, T(23, 59)}
\* Each time of day comes with one of the three reading profiles.
ReadingsAt(t) ==
    IF t = DefaultTime THEN DefaultReadings
    ELSE IF t = T(0, 0) THEN LowReadings ELSE HighReadings
CalendarInputs ==
    {WithDateTime(ReadingsAt(t), d, t) : d \in CalendarDates, t \in CalendarTimes}

\* Feature-name lists a feature_names.pkl may hold.
\* Names the enumerated lists are drawn from: five columns of the record and
\* one name that is no column (the training target).
OrderAlphabet ==
    {"Global_reactive_power", "Voltage", "Hour", "Light", "Weekday",
     "Global_active_power"}
TrainingOrder ==
    << "Year", "Month", "Day", "Hour", "Minute", "Weekday", "Is_holiday", "Light",
       "Global_reactive_power", "Voltage", "Global_intensity", "Sub_metering_1",
       "Sub_metering_2", "Sub_metering_3" >>
SubsetOrder == << "Hour", "Voltage", "Global_intensity" >>
RepeatOrder == << "Voltage", "Light", "Voltage" >>
StaleOrder  == << "Global_active_power" >> \o BuildColumns
ListedOrders == {BuildColumns, TrainingOrder, SubsetOrder, RepeatOrder, StaleOrder}
AllOrders(n) == UNION {[1..k -> OrderAlphabet] : k \in 0..n}

\* Predictor objects a model artifact may hold.
Linear14 == LinearPredictor(2, <<0, 0, 1, 0, 0, 1, 0, 0, 0, 1, 0, 0, 0, 1>>)
ModelObjects ==
    {ConstPredictor(13), ConstPredictor(20), Linear14, RaisingPredictor("TypeError")}

FileStates(objs) ==
    {[st |-> "ok", obj |-> Some(o)] : o \in objs}
        \cup {[st |-> "missing", obj |-> None], [st |-> "corrupt", obj |-> None]}

Disk(l, r, n) ==
    [name \in ArtifactFiles |->
        IF name = LinearFile THEN l ELSE IF name = RidgeFile THEN r ELSE n]

---------------------------------------------------------------------------
(* The script run.                                                         *)

NoLog == [loads |-> 0, load_failures |-> 0, builds |-> 0, aligns |-> 0, predicts |-> 0]

\* Process start: the first script run is about to construct the app.
InitRun ==
    /\ app = NoApp
    /\ pc = "start"
    /\ halt = "none"
    /\ inputs = None
    /\ built = None
    /\ input_data = None
    /\ calls = <<>>
    /\ linear_pred = None
    /\ ridge_pred = None
    /\ display = <<>>
    /\ uncaught = None
    /\ runs = 1
    /\ log = NoLog
    /\ prev = None

Init ==
    /\ \E l \in FileStates(ModelObjects), r \in FileStates(ModelObjects),
          n \in FileStates(ListedOrders) : files = Disk(l, r, n)
    /\ InitRun

InitAlign ==
    /\ \E n \in AllOrders(MaxOrderLen) \cup ListedOrders :
          files = Disk([st |-> "ok", obj |-> Some(ConstPredictor(13))],
                       [st |-> "ok", obj |-> Some(Linear14)],
                       [st |-> "ok", obj |-> Some(n)])
    /\ InitRun

InitCalendar ==
    /\ \E n \in {BuildColumns, TrainingOrder} :
          files = Disk([st |-> "ok", obj |-> Some(Linear14)],
                       [st |-> "ok", obj |-> Some(ConstPredictor(20))],
                       [st |-> "ok", obj |-> Some(n)])
    /\ InitRun

\* EnergyConsumptionApp() (lines 7-16): page set-up, then load_resources.
Construct ==
    /\ pc = "start"
    /\ LET res == load_resources(files)
       IN  /\ app' = res.app
           /\ display' = <<SidebarTitle>> \o res.display
           /\ pc' = IF res.stopped THEN "done" ELSE "run"
           /\ halt' = IF res.stopped THEN "stopped" ELSE "none"
           /\ log' = [log EXCEPT !.loads = @ + 1,
                                 !.load_failures = @ + Count(res.display, "error")]
    /\ UNCHANGED <<files, inputs, built, input_data, calls, linear_pred,
                   ridge_pred, uncaught, runs, prev>>

\* run(), lines 143-191: the title, the widgets, the feature record.
Widgets(inp) ==
    /\ pc = "run"
    /\ inputs' = Some(inp)
    /\ built' = Some(Build(inp))
    /\ input_data' = Some(Build(inp))
    /\ display' = display \o <<PageTitle>>
    /\ pc' = "align"
    /\ log' = [log EXCEPT !.builds = @ + 1]
    /\ UNCHANGED <<files, app, halt, calls, linear_pred, ridge_pred, uncaught,
                   runs, prev>>

RunBuild == \E inp \in FormInputs : Widgets(inp)

RunBuildCalendar == \E inp \in CalendarInputs : Widgets(inp)

\* run(), lines 193-198: alignment; KeyError is shown and the script stopped.
RunAlign ==
    /\ pc = "align"
    /\ LET a == Align(input_data[1], app.feature_names[1])
       IN  /\ input_data' = IF a.exc = None THEN a.df ELSE input_data
           /\ display' = IF a.exc = None THEN display
                         ELSE display \o <<ErrorBox("Missing features", a.exc[1])>>
           /\ pc' = IF a.exc = None THEN "predict" ELSE "done"
           /\ halt' = IF a.exc = None THEN "none" ELSE "stopped"
    /\ log' = [log EXCEPT !.aligns = @ + 1]
    /\ UNCHANGED <<files, app, inputs, built, calls, linear_pred, ridge_pred,
                   uncaught, runs, prev>>

\* run(), lines 200-222: the two predictions and the result card.
RunPredict ==
    /\ pc = "predict"
    /\ LET o == predictions(app.linear_model[1], app.ridge_model[1], input_data[1])
       IN  /\ calls' = o.calls
           /\ linear_pred' = o.linear_pred
           /\ ridge_pred' = o.ridge_pred
           /\ display' = display \o o.display
           /\ uncaught' = o.uncaught
           /\ pc' = IF o.uncaught = None THEN "expander" ELSE "done"
           /\ halt' = IF o.uncaught = None THEN "none" ELSE "exception"
           /\ log' = [log EXCEPT !.predicts = @ + Len(o.calls)]
    /\ UNCHANGED <<files, app, inputs, built, input_data, runs, prev>>

\* run(), lines 224-237: the methodology expander; the script run ends.
RunExpander ==
    /\ pc = "expander"
    /\ display' = display \o <<Expander>>
    /\ pc' = "done"
    /\ halt' = "completed"
    /\ UNCHANGED <<files, app, inputs, built, input_data, calls, linear_pred,
                   ridge_pred, uncaught, runs, log, prev>>

Summary ==
    [inputs |-> inputs, built |-> built, linear_pred |-> linear_pred,
     ridge_pred |-> ridge_pred, display |-> display, halt |-> halt]

\* The next user interaction: Streamlit runs the script again from the top,
\* with a new EnergyConsumptionApp and new locals.
Rerun ==
    /\ pc = "done"
    /\ runs < MaxRuns
    /\ prev' = Some(Summary)
    /\ runs' = runs + 1
    /\ app' = NoApp
    /\ pc' = "start"
    /\ halt' = "none"
    /\ inputs' = None
    /\ built' = None
    /\ input_data' = None
    /\ calls' = <<>>
    /\ linear_pred' = None
    /\ ridge_pred' = None
    /\ display' = <<>>
    /\ uncaught' = None
    /\ UNCHANGED <<files, log>>

Next == Construct \/ RunBuild \/ RunAlign \/ RunPredict \/ RunExpander \/ Rerun

NextCalendar ==
    Construct \/ RunBuildCalendar \/ RunAlign \/ RunPredict \/ RunExpander \/ Rerun

Spec == Init /\ [][Next]_vars

SpecAlign == InitAlign /\ [][Next]_vars

SpecCalendar == InitCalendar /\ [][NextCalendar]_vars

---------------------------------------------------------------------------
(* Properties.                                                             *)

\* The expected feature order held by the app of this script run.
Names == app.feature_names[1]
Loaded == app.feature_names # None
\* Alignment has been executed in this script run.
AlignDone == built # None /\ pc \in {"predict", "expander", "done"}
NamesAllKnown == \A i \in 1..Len(Names) : Names[i] \in RangeOf(BuildColumns)
\* The value the built record holds for a column name.
Field(df, name) ==
    df.row[CHOOSE k \in 1..Len(BuildColumns) : BuildColumns[k] = name]

\* C1: when every name of the expected order is a key of the built record, the
\* aligned vector has the length of the expected order, its i-th entry is the
\* record's value for the i-th name, and it is the vector each predictor gets.
C1_AlignedVector ==
    (AlignDone /\ Loaded /\ NamesAllKnown) =>
        /\ input_data # None
        /\ Len(input_data[1].row) = Len(Names)
        /\ \A i \in 1..Len(Names) :
              \E k \in 1..Len(built[1].columns) :
                  /\ built[1].columns[k] = Names[i]
                  /\ input_data[1].row[i] = built[1].row[k]
        /\ \A c \in 1..Len(calls) : calls[c].X.row = input_data[1].row

\* C1 witness: an order that repeats a name and leaves the record's own order
\* has been aligned and handed to a predictor.
C1_Witness ==
    /\ AlignDone /\ Loaded
    /\ Names = <<"Voltage", "Light", "Voltage">>
    /\ calls # <<>>
    /\ input_data[1].row = <<inputs[1].voltage, 1, inputs[1].voltage>>

\* C2: when the expected order holds a name that is no key of the record,
\* alignment ends the interaction with a "Missing features" error naming it,
\* input_data is not rebound to any partial vector, no predictor is invoked
\* and no prediction is displayed.
C2_MissingFeature ==
    (Loaded /\ ~NamesAllKnown) =>
        /\ calls = <<>>
        /\ linear_pred = None /\ ridge_pred = None
        /\ Count(display, "card") = 0
        /\ pc \notin {"predict", "expander"}
        /\ input_data = built
        /\ (built # None /\ pc = "done") =>
              /\ halt = "stopped"
              /\ display[Len(display)].kind = "error"
              /\ display[Len(display)].text = "Missing features"
              /\ display[Len(display)].args[1].type = "KeyError"
              /\ display[Len(display)].args[1].arg \notin RangeOf(BuildColumns)

\* C2 witness: an order with one known and one unknown name has stopped the run.
C2_Witness ==
    /\ Loaded /\ built # None /\ pc = "done"
    /\ Names = <<"Voltage", "Global_active_power">>
    /\ display[Len(display)].text = "Missing features"

LoadErrorTexts == {"File not found", "Error loading resources"}
LoadErrors == {i \in 1..Len(display) : display[i].text \in LoadErrorTexts}
LoadOrder == <<LinearFile, RidgeFile, NamesFile>>
FailingFiles == {i \in 1..3 : files[LoadOrder[i]].st # "ok"}

\* C3: once a load has failed, the failure is on the display, the script run
\* is stopped, and in the whole process no record is built, no alignment is
\* attempted and no predictor is invoked, whichever artifact failed.
C3_LoadFailureStops ==
    (log.load_failures > 0) =>
        /\ log.builds = 0 /\ log.aligns = 0 /\ log.predicts = 0
        /\ built = None /\ input_data = None /\ calls = <<>>
        /\ pc \in {"start", "done"}
        /\ (pc = "done") => (halt = "stopped" /\ LoadErrors # {})

\* C3 witness: the third artifact failed after two were loaded, twice.
C3_Witness ==
    /\ pc = "done" /\ runs = 2 /\ log.load_failures = 2
    /\ app.linear_model # None /\ app.ridge_model # None
    /\ app.feature_names = None

\* C4: after load_resources, with no failing artifact there is no load error
\* and one success toast; otherwise there is no toast and exactly one load
\* error, that of the first failing artifact in load order, "File not found"
\* for a missing file and "Error loading resources" for any other failure.
C4_LoadClassification ==
    (pc # "start") =>
        IF FailingFiles = {}
        THEN LoadErrors = {} /\ Count(display, "toast") = 1
        ELSE LET first == CHOOSE i \in FailingFiles : \A j \in FailingFiles : i <= j
             IN  /\ Count(display, "toast") = 0
                 /\ Cardinality(LoadErrors) = 1
                 /\ \A i \in LoadErrors :
                       /\ display[i].kind = "error"
                       /\ display[i].args[1].arg = LoadOrder[first]
                       /\ (display[i].text = "File not found")
                             <=> (files[LoadOrder[first]].st = "missing")
                       /\ (display[i].text = "Error loading resources")
                             <=> (files[LoadOrder[first]].st = "corrupt")

\* C4 witness: the linear model loads, the ridge model is corrupt and the
\* feature list is missing; the one error shown is the ridge model's.
C4_Witness ==
    /\ pc = "done"
    /\ files[LinearFile].st = "ok"
    /\ files[RidgeFile].st = "corrupt"
    /\ files[NamesFile].st = "missing"
    /\ Cardinality(LoadErrors) = 1
    /\ \A i \in LoadErrors : display[i].text = "Error loading resources"

\* The day after a date, and the weekday by day count (day 1 is a Monday).
NextDay(date) ==
    IF date.day < DaysInMonth(date.year, date.month)
    THEN D(date.year, date.month, date.day + 1)
    ELSE IF date.month < 12 THEN D(date.year, date.month + 1, 1)
    ELSE D(date.year + 1, 1, 1)
CalendarWeekday(date) == (Ymd2Ord(date.year, date.month, date.day) + 6) % 7
WeekdayOf(date, time) ==
    Field(Build(WithDateTime(DefaultReadings, date, time)), "Weekday")

\* C5: the record's Year, Month, Day, Hour and Minute are those of the date
\* and time supplied; Weekday is in 0..6, is the calendar's day of week with
\* Monday = 0, is the same at every time of that date and for that date in the
\* previous interaction, and is one more (modulo 7) on the following date;
\* 2024-11-28 12:00 gives 2024, 11, 28, 12, 0 and Weekday 3.
C5_CalendarFields ==
    (built # None) =>
        LET df == built[1]
            date == inputs[1].date
            time == inputs[1].time
        IN  /\ Field(df, "Year") = date.year
            /\ Field(df, "Month") = date.month
            /\ Field(df, "Day") = date.day
            /\ Field(df, "Hour") = time.hour
            /\ Field(df, "Minute") = time.minute
            /\ Field(df, "Weekday") \in 0..6
            /\ Field(df, "Weekday") = CalendarWeekday(date)
            /\ \A t \in CalendarTimes : WeekdayOf(date, t) = Field(df, "Weekday")
            /\ \A t \in CalendarTimes :
                  WeekdayOf(NextDay(date), t) = (Field(df, "Weekday") + 1) % 7
            /\ (prev # None /\ prev[1].built # None
                    /\ prev[1].inputs[1].date = date)
                  => Field(prev[1].built[1], "Weekday") = Field(df, "Weekday")
            /\ (date = D(2024, 11, 28) /\ time = T(12, 0))
                  => /\ Field(df, "Year") = 2024 /\ Field(df, "Month") = 11
                     /\ Field(df, "Day") = 28 /\ Field(df, "Hour") = 12
                     /\ Field(df, "Minute") = 0 /\ Field(df, "Weekday") = 3

\* C5 witness: the record of 2024-11-28 12:00 has been built with Weekday 3,
\* after an interaction on the same date.
C5_Witness ==
    /\ built # None
    /\ inputs[1].date = D(2024, 11, 28) /\ inputs[1].time = T(12, 0)
    /\ Field(built[1], "Weekday") = 3
    /\ prev # None /\ prev[1].inputs[1].date = D(2024, 11, 28)
    /\ prev[1].inputs[1].time = T(23, 59)

\* C6: every record built has the 14 named fields, with Global_reactive_power
\* 0, Light 1 and Is_holiday 0 whatever the readings, the date and the time.
C6_ConstantFields ==
    (built # None) =>
        /\ Len(built[1].columns) = 14
        /\ Len(built[1].row) = 14
        /\ RangeOf(built[1].columns) =
              { "Global_reactive_power", "Voltage", "Global_intensity",
                "Sub_metering_1", "Sub_metering_2", "Sub_metering_3", "Year",
                "Month", "Day", "Hour", "Minute", "Is_holiday", "Light", "Weekday" }
        /\ Lookup(built[1], "Global_reactive_power") = 0
        /\ Lookup(built[1], "Light") = 1
        /\ Lookup(built[1], "Is_holiday") = 0

\* C6 witness: a record built at night from the highest readings.
C6_Witness ==
    /\ built # None
    /\ inputs[1].voltage = 25500 /\ inputs[1].sub_metering_3 = 5000
    /\ inputs[1].time = T(23, 59)
    /\ Lookup(built[1], "Light") = 1

\* The predictor object behind a recorded call.
ModelOf(c) == IF c.model = "linear" THEN app.linear_model[1] ELSE app.ridge_model[1]
Cards == {i \in 1..Len(display) : display[i].kind = "card"}

\* C7: a predictor that returns a constant gives exactly that constant as its
\* estimate; every call gets the aligned vector, the linear model first; the
\* card shows the linear model's value in the first slot and the ridge
\* model's in the second; and an interaction whose inputs equal those of the
\* previous one ends with the same estimates and the same display.
C7_PassThrough ==
    /\ \A c \in 1..Len(calls) : calls[c].X = input_data[1]
    /\ (Len(calls) >= 1) => calls[1].model = "linear"
    /\ (Len(calls) >= 2) => calls[2].model = "ridge"
    /\ (Len(calls) >= 2 /\ app.linear_model[1].kind = "const")
          => linear_pred = Some(app.linear_model[1].intercept)
    /\ (ridge_pred # None /\ app.ridge_model[1].kind = "const")
          => ridge_pred = Some(app.ridge_model[1].intercept)
    /\ \A i \in Cards :
          /\ linear_pred = Some(Predict(app.linear_model[1], input_data[1]).val[1])
          /\ ridge_pred = Some(Predict(app.ridge_model[1], input_data[1]).val[1])
          /\ display[i].args = <<Fmt2(linear_pred[1]), Fmt2(ridge_pred[1])>>
    /\ (pc = "done" /\ prev # None /\ prev[1].inputs = inputs)
          => /\ prev[1].linear_pred = linear_pred
             /\ prev[1].ridge_pred = ridge_pred
             /\ Kinds(prev[1].display) = Kinds(display)
             /\ \A i \in Cards : prev[1].display[i].args = display[i].args

\* C7 witness: two constant predictors, 13/8 kW and 20/8 kW, shown as 1.62 and
\* 2.50 in a second interaction with the inputs of the first.
C7_Witness ==
    /\ pc = "done" /\ halt = "completed"
    /\ app.linear_model = Some(ConstPredictor(13))
    /\ app.ridge_model = Some(ConstPredictor(20))
    /\ linear_pred = Some(13) /\ ridge_pred = Some(20)
    /\ Cards # {}
    /\ \A i \in Cards : display[i].args = <<162, 250>>
    /\ prev # None /\ prev[1].inputs = inputs

\* A stage of run() failed in this script run: alignment raised, or a
\* predictor that was called raised.
AlignFailed == built # None /\ Loaded /\ ~NamesAllKnown /\ pc = "done"
PredictFailed == \E c \in 1..Len(calls) : Predict(ModelOf(calls[c]), calls[c].X).exc # None
Errors == {i \in 1..Len(display) : display[i].kind = "error"}

\* C8: a script run in which alignment or a predictor call failed, with
\* whatever exception, ends with the failure caught and shown as an error
\* message.
C8_EveryFailureReported ==
    (pc = "done" /\ (AlignFailed \/ PredictFailed)) =>
        /\ uncaught = None
        /\ Errors # {}

\* C9: the artifacts are loaded once per process: after a startup load that
\* succeeded, load_resources is not executed again in a later interaction.
C9_LoadedOnce == (log.load_failures = 0) => (log.loads <= 1)

\* C10: an interaction that finished with no exception escaping shows either
\* the result card and no error, or one error message as the last thing
\* rendered; each predictor is called at most once, linear first, the ridge
\* one only after the linear one returned, and the card needs both values.
C10_OneOutcome ==
    /\ Len(calls) <= 2
    /\ \A c \in 1..Len(calls) : calls[c].model = (IF c = 1 THEN "linear" ELSE "ridge")
    /\ (Len(calls) = 2) => linear_pred # None
    /\ (Cards # {}) => (linear_pred # None /\ ridge_pred # None /\ Errors = {})
    /\ (pc = "done" /\ built # None /\ uncaught = None) =>
          \/ Cardinality(Cards) = 1 /\ Errors = {}
          \/ Cards = {} /\ Cardinality(Errors) = 1 /\ Len(display) \in Errors

===========================================================================
